---- MODULE Spec2Model ----
(***************************************************************************)
(* A model of arrayfire/image.py: the image-processing functions of the   *)
(* arrayfire Python binding.  Every function marshals its arguments,      *)
(* invokes entry points of the native library and wraps the handles the   *)
(* native library hands back.  The native library is external: whether an *)
(* entry point succeeds, and the shape of what it produces, are chosen    *)
(* nondeterministically.                                                   *)
(*                                                                         *)
(* A call is one atomic action.  What the call did is recorded in order   *)
(* in `log` (one entry per native invocation), and how it ended in        *)
(* `outcome`.                                                              *)
(***************************************************************************)
EXTENDS Integers, Sequences, FiniteSets, TLC

VARIABLES
    arrays,     \* the handle ids of the arrays the caller holds
    pre,        \* the handle ids that were live when the last call began
    call,       \* the last call: its operation and its arguments
    log,        \* the native invocations of the last call, in order
    outcome,    \* how the last call ended: returned arrays or a raised error
    inbuf,      \* contents of the buffers an operation is applied to
    outbuf,     \* contents of the buffers the native kernels produced
    heap,       \* concurrent calls: the contents of every buffer, by handle
    threads     \* concurrent calls: where each calling thread is in its call

vars == <<arrays, pre, call, log, outcome, inbuf, outbuf, heap, threads>>

(***************************************************************************)
(* Bounds of the model.                                                    *)
(***************************************************************************)
\* Image extents are drawn from 1..MaxDim.
MaxDim == 2
\* Integer arguments (output dims, bounds, window sizes) are drawn from
\* -MaxArg..MaxArg.
MaxArg == 1

\* The longest chain of native invocations of one operation: sobel_filter
\* with is_fast (af_sobel_operator, af_abs, af_abs, af_add).
NativeSteps == 4

(***************************************************************************)
(* Optional arguments: Python's None is the empty sequence, a given value  *)
(* v is <<v>>.                                                             *)
(***************************************************************************)
None == <<>>

Some(v) == <<v>>

IsNone(o) == o = <<>>

Opt(S) == {None} \cup {Some(v) : v \in S}

Dims == 1..MaxDim

DimSet == Dims \X Dims

Args == (-MaxArg)..MaxArg

\* Scale factors: rationals <<num, den>> with a power-of-two denominator, so
\* that the floating-point product scale * dim is exact.
Scales == {<<n, d>> : n \in Args, d \in {1, 2, 4}}

\* Flags and enum values forwarded to the native library.
Flags == {0, 1}

(***************************************************************************)
(* Handles.  Array() makes an empty wrapper; the native entry point fills  *)
(* in a handle that no live array has.                                     *)
(***************************************************************************)
Min(S) == CHOOSE x \in S : \A y \in S : x <= y

Fresh(live) == Min((1..(Cardinality(live) + 1)) \ live)

\* The two arrays the caller starts with: an image (1) and an auxiliary
\* array (2: a mask, a transformation matrix or a histogram).
Inputs == {1, 2}

(***************************************************************************)
(* One native invocation: the entry point, the handles read, the handles   *)
(* produced, the scalar arguments, and whether it reported success.        *)
(***************************************************************************)
Native(fn, ins, outs, par, res, ok) ==
    [fn |-> fn, ins |-> ins, outs |-> outs, par |-> par, res |-> res, ok |-> ok]

\* The end of a call that raised: nothing is returned.
Raise(err, lg) ==
    [log |-> lg, kind |-> "raised", err |-> err, val |-> <<>>]

\* The end of a call that returned the arrays val.
Return(val, lg) ==
    [log |-> lg, kind |-> "returned", err |-> "", val |-> val]

Range(s) == {s[i] : i \in DOMAIN s}

\* The k-th native invocation of a call reports success unless it is the one
\* chosen to fail (fail = 0: none fails).
Ok(fail, k) == fail # k

\* A native invocation produces its output handles only when it succeeds.
Invoke(fn, ins, outs, par, ok) ==
    Native(fn, ins, IF ok THEN outs ELSE <<>>, par, None, ok)

\* A native reduction hands back the scalar v when it succeeds.
InvokeScalar(fn, ins, v, ok) ==
    Native(fn, ins, <<>>, <<>>, IF ok THEN Some(v) ELSE None, ok)

\* safe_call: a non-success return code of the entry point e raises, and the
\* rest of the function (cont) is not run.
safe_call(lg, e, cont) ==
    IF e.ok THEN cont ELSE Raise("RuntimeError", Append(lg, e))

\* The return code dropped: the native call made without safe_call.
ForwardUnchecked(fn, ins, par, live, fail) ==
    LET out == Fresh(live)
        e == Invoke(fn, ins, <<out>>, par, Ok(fail, 1))
    IN  Return(<<out>>, <<e>>)

\* output = Array(); safe_call(native(&output, ...)); return output
Forward(fn, ins, par, live, fail) ==
    LET out == Fresh(live)
        e == Invoke(fn, ins, <<out>>, par, Ok(fail, 1))
    IN  safe_call(<<>>, e, Return(<<out>>, <<e>>))

\* The same after the native invocations lg of the call.
ForwardAfter(lg, fn, ins, par, live, fail) ==
    LET out == Fresh(live)
        e == Invoke(fn, ins, <<out>>, par, Ok(fail, Len(lg) + 1))
    IN  safe_call(lg, e, Return(<<out>>, Append(lg, e)))

\* dx = Array(); dy = Array(); safe_call(native(&dx, &dy, ...)); return dx, dy
Forward2(fn, ins, par, live, fail) ==
    LET dx == Fresh(live)
        dy == Fresh(live \cup {dx})
        e == Invoke(fn, ins, <<dx, dy>>, par, Ok(fail, 1))
    IN  safe_call(<<>>, e, Return(<<dx, dy>>, <<e>>))

Live == arrays

\* The caller is between two calls.
Idle == outcome.kind = "none"

\* The caller makes the call c, which runs as r: the caller keeps its two
\* input arrays and what the call returned.
Step(c, r) ==
    /\ pre' = arrays
    /\ call' = c
    /\ log' = r.log
    /\ outcome' = [kind |-> r.kind, err |-> r.err, val |-> r.val]
    /\ arrays' = Inputs \cup Range(r.val)
    /\ UNCHANGED <<inbuf, outbuf, heap, threads>>

\* Control is back with the caller, which goes on with the arrays it holds.
Resume ==
    /\ ~Idle
    /\ call' = [op |-> "none"]
    /\ log' = <<>>
    /\ outcome' = [kind |-> "none", err |-> "", val |-> <<>>]
    /\ pre' = {}
    /\ UNCHANGED <<arrays, inbuf, outbuf, heap, threads>>

(***************************************************************************)
(* gradient, load_image, save_image                                        *)
(***************************************************************************)
gradientRun(c, live, fail) ==
    Forward2("af_gradient", <<c.image>>, <<>>, live, fail)

gradient ==
    /\ Idle
    /\ \E im \in Live, fail \in 0..NativeSteps :
           LET c == [op |-> "gradient", image |-> im]
           IN  Step(c, gradientRun(c, Live, fail))

\* The error os.path.isfile raises on a value, "" when it raises none (a
\* str, bytes, an os.PathLike, an int that fits a C int): TypeError on a
\* value that is no path (None, a float, a list), OverflowError on an int
\* outside the range of a C int.
IsfileErrors == {"", "TypeError", "OverflowError"}

\* File names as the checks of load_image and save_image see them: whether
\* the value is a str, the error os.path.isfile raises on it, whether it
\* encodes as ASCII, and whether it names an existing file.
FileNames ==
    {f \in [str : BOOLEAN, reject : IsfileErrors, ascii : BOOLEAN,
             file : BOOLEAN] :
        /\ f.str => f.reject = ""
        /\ f.file => f.reject = ""}

\* file_name.encode('ascii'): the error it raises, "" when it raises none.
EncodeError(f) ==
    IF ~f.str THEN "AttributeError"
    ELSE IF ~f.ascii THEN "UnicodeEncodeError"
    ELSE ""

\* The file check made after the native call instead of before it.
load_imageRunLate(c, live, fail) ==
    IF EncodeError(c.file_name) # "" THEN Raise(EncodeError(c.file_name), <<>>)
    ELSE LET r == Forward("af_load_image", <<>>, <<c.is_color>>, live, fail)
         IN  IF r.kind = "returned" /\ ~c.file_name.file
             THEN Raise("AssertionError", r.log)
             ELSE r

\* assert(os.path.isfile(file_name)): os.path.isfile raises on a value it
\* does not take, and is False on a path that names no file.
load_imageRun(c, live, fail) ==
    IF c.file_name.reject # "" THEN Raise(c.file_name.reject, <<>>)
    ELSE IF ~c.file_name.file THEN Raise("AssertionError", <<>>)
    ELSE IF EncodeError(c.file_name) # "" THEN Raise(EncodeError(c.file_name), <<>>)
    ELSE Forward("af_load_image", <<>>, <<c.is_color>>, live, fail)

load_image ==
    /\ Idle
    /\ \E f \in FileNames, col \in Flags, fail \in 0..NativeSteps :
           LET c == [op |-> "load_image", file_name |-> f, is_color |-> col]
           IN  Step(c, load_imageRun(c, Live, fail))

\* save_image written like every other function: an output array made and
\* returned.
save_imageRunCopy(c, live, fail) ==
    IF ~c.file_name.str THEN Raise("AssertionError", <<>>)
    ELSE IF EncodeError(c.file_name) # "" THEN Raise(EncodeError(c.file_name), <<>>)
    ELSE Forward("af_save_image", <<c.image>>, <<>>, live, fail)

save_imageRun(c, live, fail) ==
    IF ~c.file_name.str THEN Raise("AssertionError", <<>>)
    ELSE IF EncodeError(c.file_name) # "" THEN Raise(EncodeError(c.file_name), <<>>)
    ELSE LET e == Invoke("af_save_image", <<c.image>>, <<>>, <<>>, Ok(fail, 1))
         IN  safe_call(<<>>, e, Return(<<c.image>>, <<e>>))

save_image ==
    /\ Idle
    /\ \E im \in Live, f \in FileNames, fail \in 0..NativeSteps :
           LET c == [op |-> "save_image", image |-> im, file_name |-> f]
           IN  Step(c, save_imageRun(c, Live, fail))

(***************************************************************************)
(* resize                                                                  *)
(***************************************************************************)
\* A rounding slip: int(x) taken as the floor of x.
TruncAsFloor(n, d) == n \div d

\* int(x) of Python for the rational x = n / d, d > 0: truncation toward zero.
Trunc(n, d) == IF n >= 0 THEN n \div d ELSE -((-n) \div d)

\* The asserts of resize: with no scale both output dims must be given.
resizeValid(c) ==
    ~IsNone(c.scale) \/ (~IsNone(c.odim0) /\ ~IsNone(c.odim1))

\* The output dims resize asks the native library for; idims is image.dims(),
\* the shape of the image.
resizeOdims(c, idims) ==
    IF IsNone(c.scale)
    THEN <<c.odim0[1], c.odim1[1]>>
    ELSE LET sc == c.scale[1]
         IN  <<Trunc(sc[1] * idims[1], sc[2]), Trunc(sc[1] * idims[2], sc[2])>>

\* image.dims() of arrayfire.array: one native query, which hands back the
\* shape of the image.
image_dims(image, shape, ok) ==
    Native("af_get_dims", <<image>>, <<>>, <<>>, IF ok THEN shape ELSE None, ok)

\* idims is the shape of the image.
resizeRun(c, idims, live, fail) ==
    IF ~resizeValid(c) THEN Raise("AssertionError", <<>>)
    ELSE LET e0 == image_dims(c.image, idims, Ok(fail, 1))
             lg == IF IsNone(c.scale) THEN <<>> ELSE <<e0>>
             od == resizeOdims(c, idims)
         IN  IF lg # <<>> /\ ~e0.ok THEN Raise("RuntimeError", lg)
             ELSE ForwardAfter(lg, "af_resize", <<c.image>>,
                               <<od[1], od[2], c.method>>, live, fail)

resize ==
    /\ Idle
    /\ \E im \in Live, idims \in DimSet, sc \in Opt(Scales), o0 \in Opt(Args),
          o1 \in Opt(Args), m \in Flags, fail \in 0..NativeSteps :
           LET c == [op |-> "resize", image |-> im, idims |-> idims, scale |-> sc,
                     odim0 |-> o0, odim1 |-> o1, method |-> m]
           IN  Step(c, resizeRun(c, idims, Live, fail))

(***************************************************************************)
(* transform, rotate, translate, scale, skew                               *)
(***************************************************************************)
transformRun(c, live, fail) ==
    Forward("af_transform", <<c.image, c.trans_mat>>,
            <<c.odim0, c.odim1, c.method, c.is_inverse>>, live, fail)

transform ==
    /\ Idle
    /\ \E im \in Live, tm \in Live, o0 \in Args, o1 \in Args, m \in Flags,
          inv \in Flags, fail \in 0..NativeSteps :
           LET c == [op |-> "transform", image |-> im, trans_mat |-> tm,
                     odim0 |-> o0, odim1 |-> o1, method |-> m, is_inverse |-> inv]
           IN  Step(c, transformRun(c, Live, fail))

rotateRun(c, live, fail) ==
    Forward("af_rotate", <<c.image>>, <<c.theta, c.is_crop, c.method>>, live, fail)

rotate ==
    /\ Idle
    /\ \E im \in Live, th \in Flags, crop \in Flags, m \in Flags,
          fail \in 0..NativeSteps :
           LET c == [op |-> "rotate", image |-> im, theta |-> th,
                     is_crop |-> crop, method |-> m]
           IN  Step(c, rotateRun(c, Live, fail))

\* A binding that repairs the request: negative output dims clamped to 0.
translateRunClamped(c, live, fail) ==
    Forward("af_translate", <<c.image>>,
            <<c.trans0, c.trans1, IF c.odim0 < 0 THEN 0 ELSE c.odim0,
              IF c.odim1 < 0 THEN 0 ELSE c.odim1, c.method>>, live, fail)

translateRun(c, live, fail) ==
    Forward("af_translate", <<c.image>>,
            <<c.trans0, c.trans1, c.odim0, c.odim1, c.method>>, live, fail)

translate ==
    /\ Idle
    /\ \E im \in Live, t0 \in Flags, t1 \in Flags, o0 \in Args, o1 \in Args,
          m \in Flags, fail \in 0..NativeSteps :
           LET c == [op |-> "translate", image |-> im, trans0 |-> t0, trans1 |-> t1,
                     odim0 |-> o0, odim1 |-> o1, method |-> m]
           IN  Step(c, translateRun(c, Live, fail))

scaleRun(c, live, fail) ==
    Forward("af_scale", <<c.image>>,
            <<c.scale0, c.scale1, c.odim0, c.odim1, c.method>>, live, fail)

scale ==
    /\ Idle
    /\ \E im \in Live, s0 \in Flags, s1 \in Flags, o0 \in Args, o1 \in Args,
          m \in Flags, fail \in 0..NativeSteps :
           LET c == [op |-> "scale", image |-> im, scale0 |-> s0, scale1 |-> s1,
                     odim0 |-> o0, odim1 |-> o1, method |-> m]
           IN  Step(c, scaleRun(c, Live, fail))

skewRun(c, live, fail) ==
    Forward("af_skew", <<c.image>>,
            <<c.skew0, c.skew1, c.odim0, c.odim1, c.method, c.is_inverse>>,
            live, fail)

skew ==
    /\ Idle
    /\ \E im \in Live, s0 \in Flags, s1 \in Flags, o0 \in Args, o1 \in Args,
          m \in Flags, inv \in Flags, fail \in 0..NativeSteps :
           LET c == [op |-> "skew", image |-> im, skew0 |-> s0, skew1 |-> s1,
                     odim0 |-> o0, odim1 |-> o1, method |-> m, is_inverse |-> inv]
           IN  Step(c, skewRun(c, Live, fail))

(***************************************************************************)
(* histogram, hist_equal                                                   *)
(***************************************************************************)
\* af_min(image), af_max(image) of arrayfire.algorithm: one native reduction
\* over the whole array, which hands back the scalar v.
af_min(image, v, ok) == InvokeScalar("af_min_all", <<image>>, v, ok)

af_max(image, v, ok) == InvokeScalar("af_max_all", <<image>>, v, ok)

\* A truthiness test ("if not min_val") in place of the test for None.
NeedsDefaultFalsy(bound) == IsNone(bound) \/ bound = Some(0)

\* "if min_val is None", "if max_val is None": a bound is defaulted exactly
\* when the caller gave none.
NeedsDefault(bound) == IsNone(bound)

\* min_val written twice: handed over as the upper bound too.
histogramArgsMinTwice(c, min_val, max_val) == <<c.nbins, min_val, min_val>>

\* The scalar arguments of the native histogram: ct.c_uint(nbins),
\* ct.c_double(min_val), ct.c_double(max_val).
histogramArgs(c, min_val, max_val) == <<c.nbins, min_val, max_val>>

\* lo and hi are what the reductions hand back for the image.
histogramRun(c, lo, hi, live, fail) ==
    LET needMin == NeedsDefault(c.min_val)
        needMax == NeedsDefault(c.max_val)
        e1 == af_min(c.image, lo, Ok(fail, 1))
        lg1 == IF needMin THEN <<e1>> ELSE <<>>
        min_val == IF needMin THEN lo ELSE c.min_val[1]
        e2 == af_max(c.image, hi, Ok(fail, Len(lg1) + 1))
        lg2 == IF needMax THEN Append(lg1, e2) ELSE lg1
        max_val == IF needMax THEN hi ELSE c.max_val[1]
        out == Fresh(live)
        e3 == Invoke("af_histogram", <<c.image>>, <<out>>,
                     histogramArgs(c, min_val, max_val), Ok(fail, Len(lg2) + 1))
    IN  IF needMin /\ ~e1.ok THEN Raise("RuntimeError", lg1)
        ELSE IF needMax /\ ~e2.ok THEN Raise("RuntimeError", lg2)
        ELSE safe_call(lg2, e3, Return(<<out>>, Append(lg2, e3)))

histogram ==
    /\ Idle
    /\ \E im \in Live, n \in 0..MaxArg, mn \in Opt(Args), mx \in Opt(Args),
          lo \in Args, hi \in Args, fail \in 0..NativeSteps :
           LET c == [op |-> "histogram", image |-> im, nbins |-> n,
                     min_val |-> mn, max_val |-> mx]
           IN  Step(c, histogramRun(c, lo, hi, Live, fail))

\* The equalization done in place: the image handed over as the output too,
\* and returned.
hist_equalRunInPlace(c, live, fail) ==
    LET e == Invoke("af_hist_equal", <<c.image, c.hist>>, <<c.image>>, <<>>,
                    Ok(fail, 1))
    IN  safe_call(<<>>, e, Return(<<c.image>>, <<e>>))

hist_equalRun(c, live, fail) ==
    Forward("af_hist_equal", <<c.image, c.hist>>, <<>>, live, fail)

hist_equal ==
    /\ Idle
    /\ \E im \in Live, h \in Live, fail \in 0..NativeSteps :
           LET c == [op |-> "hist_equal", image |-> im, hist |-> h]
           IN  Step(c, hist_equalRun(c, Live, fail))

(***************************************************************************)
(* dilate, dilate3, erode, erode3                                          *)
(***************************************************************************)
\* constant(val, d0, d1[, d2], dtype=f32) of arrayfire.data: one native call
\* that creates the array id of shape dims filled with val.
constant(val, dims, id, ok) ==
    Native("af_constant", <<>>, IF ok THEN <<id>> ELSE <<>>, <<val>> \o dims,
           None, ok)

\* if mask is None: mask = constant(1, dims...); then the native call on
\* (image, mask).
Morph(fn, c, dims, live, fail) ==
    IF IsNone(c.mask)
    THEN LET mask == Fresh(live)
             e1 == constant(1, dims, mask, Ok(fail, 1))
             out == Fresh(live \cup {mask})
             e2 == Invoke(fn, <<c.image, mask>>, <<out>>, <<>>, Ok(fail, 2))
         IN  safe_call(<<>>, e1, safe_call(<<e1>>, e2, Return(<<out>>, <<e1, e2>>)))
    ELSE Forward(fn, <<c.image, c.mask[1]>>, <<>>, live, fail)

\* A copy of erode left unadapted: dilate invoking the native erode.
dilateRunAsErode(c, live, fail) == Morph("af_erode", c, <<3, 3>>, live, fail)

dilateRun(c, live, fail) == Morph("af_dilate", c, <<3, 3>>, live, fail)

dilate ==
    /\ Idle
    /\ \E im \in Live, mk \in Opt(Live), fail \in 0..NativeSteps :
           LET c == [op |-> "dilate", image |-> im, mask |-> mk]
           IN  Step(c, dilateRun(c, Live, fail))

dilate3Run(c, live, fail) == Morph("af_dilate3", c, <<3, 3, 3>>, live, fail)

dilate3 ==
    /\ Idle
    /\ \E im \in Live, mk \in Opt(Live), fail \in 0..NativeSteps :
           LET c == [op |-> "dilate3", image |-> im, mask |-> mk]
           IN  Step(c, dilate3Run(c, Live, fail))

erodeRun(c, live, fail) == Morph("af_erode", c, <<3, 3>>, live, fail)

erode ==
    /\ Idle
    /\ \E im \in Live, mk \in Opt(Live), fail \in 0..NativeSteps :
           LET c == [op |-> "erode", image |-> im, mask |-> mk]
           IN  Step(c, erodeRun(c, Live, fail))

\* A copy of erode left unadapted: the default mask of erode3 built 3x3.
erode3RunFlat(c, live, fail) == Morph("af_erode3", c, <<3, 3>>, live, fail)

erode3Run(c, live, fail) == Morph("af_erode3", c, <<3, 3, 3>>, live, fail)

erode3 ==
    /\ Idle
    /\ \E im \in Live, mk \in Opt(Live), fail \in 0..NativeSteps :
           LET c == [op |-> "erode3", image |-> im, mask |-> mk]
           IN  Step(c, erode3Run(c, Live, fail))

(***************************************************************************)
(* bilateral, mean_shift, medfilt, minfilt, maxfilt, regions               *)
(***************************************************************************)
\* The filter run in place: the image handed over as the output pointer
\* too, and returned.
bilateralRunInPlace(c, live, fail) ==
    LET e == Invoke("af_bilateral", <<c.image>>, <<c.image>>,
                    <<c.s_sigma, c.c_sigma, c.is_color>>, Ok(fail, 1))
    IN  safe_call(<<>>, e, Return(<<c.image>>, <<e>>))

bilateralRun(c, live, fail) ==
    Forward("af_bilateral", <<c.image>>, <<c.s_sigma, c.c_sigma, c.is_color>>,
            live, fail)

bilateral ==
    /\ Idle
    /\ \E im \in Live, ss \in Flags, cs \in Flags, col \in Flags,
          fail \in 0..NativeSteps :
           LET c == [op |-> "bilateral", image |-> im, s_sigma |-> ss,
                     c_sigma |-> cs, is_color |-> col]
           IN  Step(c, bilateralRun(c, Live, fail))

mean_shiftRun(c, live, fail) ==
    Forward("af_mean_shift", <<c.image>>,
            <<c.s_sigma, c.c_sigma, c.n_iter, c.is_color>>, live, fail)

mean_shift ==
    /\ Idle
    /\ \E im \in Live, ss \in Flags, cs \in Flags, it \in Flags, col \in Flags,
          fail \in 0..NativeSteps :
           LET c == [op |-> "mean_shift", image |-> im, s_sigma |-> ss,
                     c_sigma |-> cs, n_iter |-> it, is_color |-> col]
           IN  Step(c, mean_shiftRun(c, Live, fail))

\* Window lengths of the filters and of the Sobel operator.
Windows == {3, 5}

medfiltRun(c, live, fail) ==
    Forward("af_medfilt", <<c.image>>, <<c.w0, c.w1, c.edge_pad>>, live, fail)

medfilt ==
    /\ Idle
    /\ \E im \in Live, w0 \in Windows, w1 \in Windows, pad \in Flags,
          fail \in 0..NativeSteps :
           LET c == [op |-> "medfilt", image |-> im, w0 |-> w0, w1 |-> w1,
                     edge_pad |-> pad]
           IN  Step(c, medfiltRun(c, Live, fail))

minfiltRun(c, live, fail) ==
    Forward("af_minfilt", <<c.image>>, <<c.w_len, c.w_wid, c.edge_pad>>, live, fail)

minfilt ==
    /\ Idle
    /\ \E im \in Live, w0 \in Windows, w1 \in Windows, pad \in Flags,
          fail \in 0..NativeSteps :
           LET c == [op |-> "minfilt", image |-> im, w_len |-> w0, w_wid |-> w1,
                     edge_pad |-> pad]
           IN  Step(c, minfiltRun(c, Live, fail))

maxfiltRun(c, live, fail) ==
    Forward("af_maxfilt", <<c.image>>, <<c.w_len, c.w_wid, c.edge_pad>>, live, fail)

maxfilt ==
    /\ Idle
    /\ \E im \in Live, w0 \in Windows, w1 \in Windows, pad \in Flags,
          fail \in 0..NativeSteps :
           LET c == [op |-> "maxfilt", image |-> im, w_len |-> w0, w_wid |-> w1,
                     edge_pad |-> pad]
           IN  Step(c, maxfiltRun(c, Live, fail))

\* CONNECTIVITY.FOUR.value and CONNECTIVITY.EIGHT.value.
Connectivities == {4, 8}

\* The connectivity argument dropped: the default, FOUR, always handed over.
regionsRunFour(c, live, fail) ==
    Forward("af_regions", <<c.image>>, <<4, c.out_type>>, live, fail)

regionsRun(c, live, fail) ==
    Forward("af_regions", <<c.image>>, <<c.conn, c.out_type>>, live, fail)

regions ==
    /\ Idle
    /\ \E im \in Live, cn \in Connectivities, ty \in Flags, fail \in 0..NativeSteps :
           LET c == [op |-> "regions", image |-> im, conn |-> cn, out_type |-> ty]
           IN  Step(c, regionsRun(c, Live, fail))

(***************************************************************************)
(* sobel_derivatives, sobel_filter                                         *)
(***************************************************************************)
sobel_derivativesRun(c, live, fail) ==
    Forward2("af_sobel_operator", <<c.image>>, <<c.w_len>>, live, fail)

sobel_derivatives ==
    /\ Idle
    /\ \E im \in Live, w \in Windows, fail \in 0..NativeSteps :
           LET c == [op |-> "sobel_derivatives", image |-> im, w_len |-> w]
           IN  Step(c, sobel_derivativesRun(c, Live, fail))

\* af_abs(dx) + af_abs(dy): two elementwise abs and one elementwise add.
SobelFast(d, live, fail) ==
    LET dx == d.val[1]
        dy == d.val[2]
        a == Fresh(live \cup {dx, dy})
        e2 == Invoke("af_abs", <<dx>>, <<a>>, <<>>, Ok(fail, 2))
        b == Fresh(live \cup {dx, dy, a})
        e3 == Invoke("af_abs", <<dy>>, <<b>>, <<>>, Ok(fail, 3))
        out == Fresh(live \cup {dx, dy, a, b})
        e4 == Invoke("af_add", <<a, b>>, <<out>>, <<>>, Ok(fail, 4))
        lg2 == Append(d.log, e2)
        lg3 == Append(lg2, e3)
    IN  safe_call(d.log, e2,
            safe_call(lg2, e3,
                safe_call(lg3, e4, Return(<<out>>, Append(lg3, e4)))))

\* af_hypot(dx, dy): one elementwise hypot.
SobelHypot(d, live, fail) ==
    LET dx == d.val[1]
        dy == d.val[2]
        out == Fresh(live \cup {dx, dy})
        e2 == Invoke("af_hypot", <<dx, dy>>, <<out>>, <<>>, Ok(fail, 2))
    IN  safe_call(d.log, e2, Return(<<out>>, Append(d.log, e2)))

\* The branches of is_fast exchanged.
sobel_filterRunSwapped(c, live, fail) ==
    LET d == sobel_derivativesRun([image |-> c.image, w_len |-> c.w_len], live, fail)
    IN  IF d.kind = "raised" THEN d
        ELSE IF c.is_fast THEN SobelHypot(d, live, fail)
        ELSE SobelFast(d, live, fail)

sobel_filterRun(c, live, fail) ==
    LET d == sobel_derivativesRun([image |-> c.image, w_len |-> c.w_len], live, fail)
    IN  IF d.kind = "raised" THEN d
        ELSE IF c.is_fast THEN SobelFast(d, live, fail)
        ELSE SobelHypot(d, live, fail)

sobel_filter ==
    /\ Idle
    /\ \E im \in Live, w \in Windows, fast \in BOOLEAN, fail \in 0..NativeSteps :
           LET c == [op |-> "sobel_filter", image |-> im, w_len |-> w, is_fast |-> fast]
           IN  Step(c, sobel_filterRun(c, Live, fail))

(***************************************************************************)
(* rgb2gray, gray2rgb, hsv2rgb, rgb2hsv, color_space                       *)
(***************************************************************************)
rgb2grayRun(c, live, fail) ==
    Forward("af_rgb2gray", <<c.image>>, <<c.r_factor, c.g_factor, c.b_factor>>,
            live, fail)

rgb2gray ==
    /\ Idle
    /\ \E im \in Live, r \in Flags, g \in Flags, b \in Flags, fail \in 0..NativeSteps :
           LET c == [op |-> "rgb2gray", image |-> im, r_factor |-> r,
                     g_factor |-> g, b_factor |-> b]
           IN  Step(c, rgb2grayRun(c, Live, fail))

gray2rgbRun(c, live, fail) ==
    Forward("af_gray2rgb", <<c.image>>, <<c.r_factor, c.g_factor, c.b_factor>>,
            live, fail)

gray2rgb ==
    /\ Idle
    /\ \E im \in Live, r \in Flags, g \in Flags, b \in Flags, fail \in 0..NativeSteps :
           LET c == [op |-> "gray2rgb", image |-> im, r_factor |-> r,
                     g_factor |-> g, b_factor |-> b]
           IN  Step(c, gray2rgbRun(c, Live, fail))

hsv2rgbRun(c, live, fail) == Forward("af_hsv2rgb", <<c.image>>, <<>>, live, fail)

hsv2rgb ==
    /\ Idle
    /\ \E im \in Live, fail \in 0..NativeSteps :
           LET c == [op |-> "hsv2rgb", image |-> im]
           IN  Step(c, hsv2rgbRun(c, Live, fail))

rgb2hsvRun(c, live, fail) == Forward("af_rgb2hsv", <<c.image>>, <<>>, live, fail)

rgb2hsv ==
    /\ Idle
    /\ \E im \in Live, fail \in 0..NativeSteps :
           LET c == [op |-> "rgb2hsv", image |-> im]
           IN  Step(c, rgb2hsvRun(c, Live, fail))

\* The values of the CSPACE enum: GRAY, RGB, HSV.
CSpaces == {0, 1, 2}

\* The two enum arguments handed over in the order of the Python signature
\* (to_type, from_type) reversed.
color_spaceRunSwapped(c, live, fail) ==
    Forward("af_color_space", <<c.image>>, <<c.from_type, c.to_type>>, live, fail)

color_spaceRun(c, live, fail) ==
    Forward("af_color_space", <<c.image>>, <<c.to_type, c.from_type>>, live, fail)

color_space ==
    /\ Idle
    /\ \E im \in Live, to \in CSpaces, from \in CSpaces, fail \in 0..NativeSteps :
           LET c == [op |-> "color_space", image |-> im, to_type |-> to,
                     from_type |-> from]
           IN  Step(c, color_spaceRun(c, Live, fail))

(***************************************************************************)
(* The specification: the caller holds an image and an auxiliary array and *)
(* calls the functions of the module in any order.                         *)
(***************************************************************************)
\* The caller before its first call.
Start ==
    /\ arrays = Inputs
    /\ pre = {}
    /\ call = [op |-> "none"]
    /\ log = <<>>
    /\ outcome = [kind |-> "none", err |-> "", val |-> <<>>]

\* No concurrent calls: the calls are made one after the other.
Sequential ==
    /\ heap = <<>>
    /\ threads = <<>>

Init ==
    /\ Start
    /\ Sequential
    /\ inbuf = <<>>
    /\ outbuf = <<>>

Next ==
    \/ gradient
    \/ load_image
    \/ save_image
    \/ resize
    \/ transform
    \/ rotate
    \/ translate
    \/ scale
    \/ skew
    \/ histogram
    \/ hist_equal
    \/ dilate
    \/ dilate3
    \/ erode
    \/ erode3
    \/ bilateral
    \/ mean_shift
    \/ medfilt
    \/ minfilt
    \/ maxfilt
    \/ regions
    \/ sobel_derivatives
    \/ sobel_filter
    \/ rgb2gray
    \/ gray2rgb
    \/ hsv2rgb
    \/ rgb2hsv
    \/ color_space
    \/ Resume

Spec == Init /\ [][Next]_vars

(***************************************************************************)
(* The native kernels on buffer contents, as the specification describes   *)
(* them.  A second family of specifications applies an operation of the   *)
(* module to concrete contents: the arguments the native entry point is   *)
(* handed are those of the operation's run above, the contents it produces *)
(* are the kernel's.                                                       *)
(***************************************************************************)
\* The native log entry of entry point fn in the run r.
EntryOf(r, fn) == r.log[CHOOSE i \in DOMAIN r.log : r.log[i].fn = fn]

Max(S) == CHOOSE x \in S : \A y \in S : x >= y

RECURSIVE SumSeq(_)
SumSeq(q) == IF q = <<>> THEN 0 ELSE q[1] + SumSeq(Tail(q))

\* floor(a / b) for b # 0.
FloorDiv(a, b) == IF b > 0 THEN a \div b ELSE (-a) \div (-b)

Clamp(v, low, high) == IF v < low THEN low ELSE IF v > high THEN high ELSE v

(***************************************************************************)
(* histogram on contents.  An image is the sequence of its pixel values.   *)
(***************************************************************************)
\* Pixel values are drawn from 0..MaxPixel, images have 1..MaxPixels pixels,
\* histograms 1..MaxBins bins.
MaxPixel == 2

MaxPixels == 3

MaxBins == 3

Pixels == 0..MaxPixel

HistImages == UNION {[1..k -> Pixels] : k \in 1..MaxPixels}

\* The reductions over the whole image.
MinAll(B) == Min(Range(B))

MaxAll(B) == Max(Range(B))

\* The bin rule for max_val # min_val:
\* clamp(floor((x - min_val) / binwidth), 0, nbins - 1) with
\* binwidth = (max_val - min_val) / nbins.
BinIndex(x, nbins, min_val, max_val) ==
    Clamp(FloorDiv((x - min_val) * nbins, max_val - min_val), 0, nbins - 1)

\* The bins a pixel with index i is counted in: bin i when there is such a
\* bin, none otherwise.
CountedIn(i, nbins) == IF i \in 0..(nbins - 1) THEN {i} ELSE {}

\* The ways the kernel can bin the pixels of B: for each pixel the bins it is
\* counted in.  With max_val # min_val the rule gives every pixel its index.
\* With max_val = min_val the bin width is zero and the rule divides by
\* zero: it defines no index, and a pixel may end up in any one bin or in
\* none.
Binnings(B, nbins, min_val, max_val) ==
    IF max_val = min_val
    THEN [DOMAIN B -> {{}} \cup {{k} : k \in 0..(nbins - 1)}]
    ELSE {[p \in DOMAIN B |->
              CountedIn(BinIndex(B[p], nbins, min_val, max_val), nbins)]}

\* The count vector of a binning.
Counts(b, nbins) ==
    [k \in 1..nbins |-> Cardinality({p \in DOMAIN b : (k - 1) \in b[p]})]

\* The machine state plays no part in the specifications on contents.
Parked == UNCHANGED <<arrays, pre, call, log, outcome, heap, threads>>

HistInit ==
    /\ Start
    /\ Sequential
    /\ inbuf \in [image : HistImages, nbins : 1..MaxBins,
                   min_val : Opt(Pixels), max_val : Opt(Pixels)]
    /\ outbuf = <<>>

\* histogram(image, nbins, min_val, max_val) on contents.
histogramOf ==
    /\ outbuf = <<>>
    /\ LET c == [op |-> "histogram", image |-> 1, nbins |-> inbuf.nbins,
                 min_val |-> inbuf.min_val, max_val |-> inbuf.max_val]
           r == histogramRun(c, MinAll(inbuf.image), MaxAll(inbuf.image), Inputs, 0)
           e == EntryOf(r, "af_histogram")
       IN  /\ e.par[1] >= 1
           /\ \E b \in Binnings(inbuf.image, e.par[1], e.par[2], e.par[3]) :
                  outbuf' = [hist |-> Counts(b, e.par[1])]
    /\ UNCHANGED inbuf
    /\ Parked

HistNext == histogramOf

SpecHist == HistInit /\ [][HistNext]_vars

(***************************************************************************)
(* 2D images on contents: h rows, w columns, the pixels row by row.        *)
(***************************************************************************)
Cells(B) == (1..B.h) \X (1..B.w)

At(B, p) == B.px[(p[1] - 1) * B.w + p[2]]

Abs(x) == IF x < 0 THEN -x ELSE x

\* The binary images of h rows and w columns.
BinaryImages(h, w) == {[h |-> h, w |-> w, px |-> q] : q \in [1..(h * w) -> {0, 1}]}

(***************************************************************************)
(* regions on contents.                                                    *)
(***************************************************************************)
\* Images of regions have at most MaxCells pixels.
MaxCells == 9

\* The scenario image: 4x4, zero but for ones at rows 2-3, columns 2-3
\* (rows 1-2, cols 1-2 counted from 0).
Block4x4 ==
    [h |-> 4, w |-> 4,
     px |-> [k \in 1..16 |-> IF k \in {6, 7, 10, 11} THEN 1 ELSE 0]]

RegionImages ==
    {Block4x4} \cup
    UNION {UNION {BinaryImages(h, w) : w \in 1..(MaxCells \div h)} :
              h \in 1..MaxCells}

\* Neighbours under 4- and 8-connectivity.
Adjacent(p, q, conn) ==
    LET di == Abs(p[1] - q[1])
        dj == Abs(p[2] - q[2])
    IN  IF conn = 4 THEN di + dj = 1
        ELSE di <= 1 /\ dj <= 1 /\ di + dj >= 1

NonZero(B) == {p \in Cells(B) : At(B, p) # 0}

\* The connected group of non-zero pixels that holds the set S.
RECURSIVE Grow(_, _, _)
Grow(B, conn, S) ==
    LET T == S \cup {q \in NonZero(B) : \E p \in S : Adjacent(p, q, conn)}
    IN  IF T = S THEN S ELSE Grow(B, conn, T)

\* The labelling kernel: the pixels are visited row by row; the first pixel
\* met of a group not labelled yet gives the whole group the next label.
RECURSIVE LabelScan(_, _, _, _, _)
LabelScan(B, conn, k, lab, next) ==
    IF k > B.h * B.w THEN lab
    ELSE LET p == <<((k - 1) \div B.w) + 1, ((k - 1) % B.w) + 1>>
         IN  IF B.px[k] = 0 \/ lab[k] # 0
             THEN LabelScan(B, conn, k + 1, lab, next)
             ELSE LET G == Grow(B, conn, {p})
                      lab2 == [j \in 1..(B.h * B.w) |->
                                  IF <<((j - 1) \div B.w) + 1, ((j - 1) % B.w) + 1>> \in G
                                  THEN next ELSE lab[j]]
                  IN  LabelScan(B, conn, k + 1, lab2, next + 1)

Labels(B, conn) ==
    [h |-> B.h, w |-> B.w,
     px |-> LabelScan(B, conn, 1, [j \in 1..(B.h * B.w) |-> 0], 1)]

RegionsInit ==
    /\ Start
    /\ Sequential
    /\ inbuf \in [image : RegionImages, conn : Connectivities, out_type : Flags]
    /\ outbuf = <<>>

\* regions(image, conn, out_type) on contents.
regionsOf ==
    /\ outbuf = <<>>
    /\ LET c == [op |-> "regions", image |-> 1, conn |-> inbuf.conn,
                 out_type |-> inbuf.out_type]
           e == EntryOf(regionsRun(c, Inputs, 0), "af_regions")
       IN  outbuf' = [labels |-> Labels(inbuf.image, e.par[1])]
    /\ UNCHANGED inbuf
    /\ Parked

RegionsNext == regionsOf

SpecRegions == RegionsInit /\ [][RegionsNext]_vars

(***************************************************************************)
(* dilate and erode on contents.                                           *)
(***************************************************************************)
\* Images of the morphology operations have at most MorphCells pixels.
MorphCells == 4

MorphImages ==
    UNION {UNION {BinaryImages(h, w) : w \in 1..(MorphCells \div h)} :
              h \in 1..MorphCells}

\* The structuring masks a caller passes: the 3x3 masks of zeros and ones.
Masks == BinaryImages(3, 3)

\* The contents constant(val, d0, d1) creates.
ConstantOf(par) ==
    [h |-> par[2], w |-> par[3], px |-> [k \in 1..(par[2] * par[3]) |-> par[1]]]

\* The pixels of B under the mask M centred on p: the cells p + a - centre
\* for the cells a of M that are set, as far as they lie inside B.
Neighbourhood(B, M, p) ==
    {q \in Cells(B) :
        \E a \in Cells(M) :
            /\ At(M, a) > 0
            /\ q[1] = p[1] + a[1] - ((M.h \div 2) + 1)
            /\ q[2] = p[2] + a[2] - ((M.w \div 2) + 1)}

\* The native kernels: dilation is the max, erosion the min over the masked
\* neighbourhood (over no pixel at all: the neutral value of max, of min).
MorphKernel(fn, B, M) ==
    [h |-> B.h, w |-> B.w,
     px |-> [k \in 1..(B.h * B.w) |->
                LET p == <<((k - 1) \div B.w) + 1, ((k - 1) % B.w) + 1>>
                    V == {At(B, q) : q \in Neighbourhood(B, M, p)}
                IN  IF fn = "af_dilate"
                    THEN (IF V = {} THEN 0 ELSE Max(V))
                    ELSE (IF V = {} THEN 1 ELSE Min(V))]]

\* What the run r of dilate or erode on the image B and the caller's mask
\* (None or <<M>>) produces: the mask the native entry point is handed is the
\* caller's, or the one the run created.
MorphOf(r, fn, B, mask) ==
    LET e == r.log[Len(r.log)]
        M == IF IsNone(mask) THEN ConstantOf(EntryOf(r, "af_constant").par)
             ELSE mask[1]
    IN  MorphKernel(e.fn, B, M)

MorphCall(op) ==
    [op |-> op, image |-> 1, mask |-> IF IsNone(inbuf.mask) THEN None ELSE Some(2)]

MorphInit ==
    /\ Start
    /\ Sequential
    /\ inbuf \in [image : MorphImages, mask : Opt(Masks)]
    /\ outbuf = <<>>

\* dilate(image, mask) on contents.
dilateOf ==
    /\ outbuf = <<>>
    /\ outbuf' = [stage |-> "dilated",
                  d |-> MorphOf(dilateRun(MorphCall("dilate"), Inputs, 0),
                                "af_dilate", inbuf.image, inbuf.mask)]
    /\ UNCHANGED inbuf
    /\ Parked

\* erode(dilate(image, mask), mask) and erode(image, mask) on contents.
erodeOf ==
    /\ outbuf # <<>>
    /\ outbuf.stage = "dilated"
    /\ LET r == erodeRun(MorphCall("erode"), Inputs, 0)
       IN  outbuf' = [stage |-> "eroded",
                      d |-> outbuf.d,
                      ed |-> MorphOf(r, "af_erode", outbuf.d, inbuf.mask),
                      e |-> MorphOf(r, "af_erode", inbuf.image, inbuf.mask)]
    /\ UNCHANGED inbuf
    /\ Parked

MorphNext ==
    \/ dilateOf
    \/ erodeOf

SpecMorph == MorphInit /\ [][MorphNext]_vars

(***************************************************************************)
(* Concurrent calls.  Two threads of the caller each call a function of    *)
(* the module, at the same time or one after the other, possibly on the    *)
(* same arrays or on what the other call returned.  A function runs as in *)
(* the sequential specification (its Run operator gives the native         *)
(* invocations it makes), but its native invocations are interleaved with  *)
(* those of the other thread, and a native kernel writes an output buffer  *)
(* part by part.  The contents of a buffer are symbolic: a part written by *)
(* entry point fn is the term <<fn, par, part, buffers read>>, built from  *)
(* the input buffers as they are when the part is written.                 *)
(***************************************************************************)
Threads == {1, 2}

\* The number of parts in which a native kernel writes an output buffer.
Chunks == 2

Term(fn, par, j, ins) == <<fn, par, j, ins>>

\* A buffer no part of which has been written.
Unwritten == [j \in 1..Chunks |-> None]

Complete(buf) == \A j \in 1..Chunks : buf[j] # None

\* The buffer of an array the caller starts with.
InputBuffer(id) == [j \in 1..Chunks |-> Term("input", <<id>>, j, <<>>)]

\* The buffers the native invocation e reads, as they are in h.
Read(h, e) == [i \in DOMAIN e.ins |-> h[e.ins[i]]]

\* The native invocation e writes part j of each of its outputs.
WritePart(h, e, j) ==
    [x \in DOMAIN h \cup Range(e.outs) |->
        IF x \in Range(e.outs)
        THEN [(IF x \in DOMAIN h THEN h[x] ELSE Unwritten)
                  EXCEPT ![j] = Term(e.fn, e.par, j, Read(h, e))]
        ELSE h[x]]

\* The native invocation e run from its first part to its last with no other
\* invocation in between.
RECURSIVE WriteAll(_, _, _)
WriteAll(h, e, j) ==
    IF j > Chunks THEN h ELSE WriteAll(WritePart(h, e, j), e, j + 1)

\* The buffers after the native invocations lg[k], lg[k+1], ... of one call
\* run alone from the buffers h.
RECURSIVE Alone(_, _, _)
Alone(lg, k, h) ==
    IF k > Len(lg) THEN h
    ELSE Alone(lg, k + 1, IF lg[k].ok THEN WriteAll(h, lg[k], 1) ELSE h)

\* The handles the native invocations of the call that runs as r produce.
Planned(r) == UNION {Range(r.log[i].outs) : i \in DOMAIN r.log}

Busy(t) == threads[t].pc \in {"native", "return"}

\* The handles in use: those of the buffers that exist and those of the
\* calls in progress.
Reserved ==
    DOMAIN heap \cup UNION {Planned(threads[u].r) : u \in {v \in Threads : Busy(v)}}

\* A thread that has not made its call yet.
NoCall ==
    [pc |-> "idle", c |-> [op |-> "none"], r |-> Return(<<>>, <<>>),
     k |-> 1, j |-> 0, snap |-> <<>>, locals |-> {}]

CanCall(t) == threads[t].pc = "idle"

\* Thread t enters the call c, which is to run as r; snap keeps the buffers
\* of the arrays the caller holds as they are at this moment, and locals the
\* arrays that the call makes and does not return (the default mask).
Enter(t, c, r) ==
    /\ threads' = [threads EXCEPT ![t] =
                       [pc |-> IF r.log = <<>> THEN "return" ELSE "native",
                        c |-> c, r |-> r, k |-> 1, j |-> 0,
                        snap |-> [i \in arrays |-> heap[i]],
                        locals |-> Planned(r) \ Range(r.val)]]
    /\ UNCHANGED <<arrays, heap, pre, call, log, outcome, inbuf, outbuf>>

bilateralBy(t) ==
    /\ CanCall(t)
    /\ \E im \in arrays, col \in Flags, fail \in 0..NativeSteps :
           LET c == [op |-> "bilateral", image |-> im, s_sigma |-> 1,
                     c_sigma |-> 1, is_color |-> col]
           IN  Enter(t, c, bilateralRun(c, Reserved, fail))

dilateBy(t) ==
    /\ CanCall(t)
    /\ \E im \in arrays, mk \in Opt(arrays), fail \in 0..NativeSteps :
           LET c == [op |-> "dilate", image |-> im, mask |-> mk]
           IN  Enter(t, c, dilateRun(c, Reserved, fail))

hist_equalBy(t) ==
    /\ CanCall(t)
    /\ \E im \in arrays, h \in arrays, fail \in 0..NativeSteps :
           LET c == [op |-> "hist_equal", image |-> im, hist |-> h]
           IN  Enter(t, c, hist_equalRun(c, Reserved, fail))

\* The native invocation thread t is in goes one step on: a failing one
\* reports its failure, a succeeding one writes the next part of its
\* outputs.  After its last part the thread goes to its next native
\* invocation, and after its last invocation (a failed one is the last:
\* safe_call raises) to its return.
NativeStep(t) ==
    /\ threads[t].pc = "native"
    /\ LET th == threads[t]
           e == th.r.log[th.k]
           finished == ~e.ok \/ th.j + 1 >= Chunks
       IN  /\ heap' = IF e.ok THEN WritePart(heap, e, th.j + 1) ELSE heap
           /\ threads' = [threads EXCEPT ![t] =
                  IF ~finished THEN [th EXCEPT !.j = th.j + 1]
                  ELSE IF th.k = Len(th.r.log)
                       THEN [th EXCEPT !.pc = "return", !.k = th.k + 1, !.j = 0]
                       ELSE [th EXCEPT !.k = th.k + 1, !.j = 0]]
    /\ UNCHANGED <<arrays, pre, call, log, outcome, inbuf, outbuf>>

\* An array local to the call of thread t is released (the wrapper's
\* destructor, a native call of its own).  A call that returns releases its
\* local arrays on leaving its frame, before the caller has the result; a
\* call that raised keeps its frame, and its local arrays, until the caller
\* has dropped the error.
ReleaseBy(t) ==
    /\ \/ threads[t].pc = "return" /\ threads[t].r.kind = "returned"
       \/ threads[t].pc = "done" /\ threads[t].r.kind = "raised"
    /\ \E x \in threads[t].locals :
           /\ heap' = [y \in DOMAIN heap \ {x} |-> heap[y]]
           /\ threads' = [threads EXCEPT ![t].locals = @ \ {x}]
    /\ UNCHANGED <<arrays, pre, call, log, outcome, inbuf, outbuf>>

\* The call of thread t returns or raises: the caller gets the arrays
\* returned, or the error.
ReturnBy(t) ==
    /\ threads[t].pc = "return"
    /\ threads[t].r.kind = "returned" => threads[t].locals = {}
    /\ arrays' = arrays \cup Range(threads[t].r.val)
    /\ threads' = [threads EXCEPT ![t].pc = "done"]
    /\ UNCHANGED <<heap, pre, call, log, outcome, inbuf, outbuf>>

ConcInit ==
    /\ Start
    /\ inbuf = <<>>
    /\ outbuf = <<>>
    /\ heap = [i \in Inputs |-> InputBuffer(i)]
    /\ threads = [t \in Threads |-> NoCall]

ConcNext ==
    \E t \in Threads :
        \/ bilateralBy(t)
        \/ dilateBy(t)
        \/ hist_equalBy(t)
        \/ NativeStep(t)
        \/ ReleaseBy(t)
        \/ ReturnBy(t)

SpecConc == ConcInit /\ [][ConcNext]_vars

(***************************************************************************)
(* Properties of the calls.  They speak of the last call: its arguments    *)
(* (call), what it asked of the native library (log) and how it ended      *)
(* (outcome).                                                              *)
(***************************************************************************)
Called(op) == call.op = op

Raised == outcome.kind = "raised"

Returned == outcome.kind = "returned"

\* The positions of the log at which entry point fn was invoked.
Entries(fn) == {i \in DOMAIN log : log[i].fn = fn}

\* k is the rational n / d (d > 0) rounded toward zero.
IsTruncation(k, n, d) ==
    IF n >= 0
    THEN k >= 0 /\ k * d <= n /\ n < (k + 1) * d
    ELSE k <= 0 /\ k * d >= n /\ n > (k - 1) * d

\* C1: resize with no scale fails before the native resize unless both odim0
\* and odim1 are given (and then asks for exactly those dims); resize with a
\* scale ignores the caller's odim0/odim1 and asks the native resize for
\* exactly (int(scale * idims[0]), int(scale * idims[1])), rounded toward zero.
C1_ResizeDims ==
    Called("resize") =>
        IF IsNone(call.scale)
        THEN IF IsNone(call.odim0) \/ IsNone(call.odim1)
             THEN Raised /\ log = <<>>
             ELSE /\ Len(log) = 1
                  /\ log[1].fn = "af_resize"
                  /\ log[1].par[1] = call.odim0[1]
                  /\ log[1].par[2] = call.odim1[1]
        ELSE /\ Cardinality(Entries("af_resize")) <= 1
             /\ Returned => Entries("af_resize") # {}
             /\ \A i \in Entries("af_resize") :
                    /\ IsTruncation(log[i].par[1],
                                    call.scale[1][1] * call.idims[1],
                                    call.scale[1][2])
                    /\ IsTruncation(log[i].par[2],
                                    call.scale[1][1] * call.idims[2],
                                    call.scale[1][2])

\* A resize by a negative, fractional scale whose caller also gave odim0 and
\* odim1: the dims asked for differ from the caller's and were rounded.
C1_Witness ==
    /\ Called("resize")
    /\ ~IsNone(call.scale) /\ ~IsNone(call.odim0) /\ ~IsNone(call.odim1)
    /\ call.scale[1][1] < 0
    /\ (call.scale[1][1] * call.idims[1]) % call.scale[1][2] # 0
    /\ Len(log) = 2
    /\ log[2].fn = "af_resize"
    /\ log[2].par[1] # call.odim0[1]
    /\ Returned

\* The operations that take output dims.
TakesDims == {"resize", "transform", "translate", "scale", "skew"}

\* The output dims the last call requests (resize: only when its asserts
\* pass).
HasRequest ==
    /\ call.op \in TakesDims
    /\ Called("resize") => resizeValid(call)

Requested ==
    IF ~Called("resize") THEN <<call.odim0, call.odim1>>
    ELSE IF IsNone(call.scale) THEN <<call.odim0[1], call.odim1[1]>>
    ELSE LET sc == call.scale[1]
             k0 == CHOOSE k \in -(MaxArg * MaxDim)..(MaxArg * MaxDim) :
                       IsTruncation(k, sc[1] * call.idims[1], sc[2])
             k1 == CHOOSE k \in -(MaxArg * MaxDim)..(MaxArg * MaxDim) :
                       IsTruncation(k, sc[1] * call.idims[2], sc[2])
         IN  <<k0, k1>>

\* Invalid output dims: a size of resize that is not positive, a negative
\* size elsewhere (0 there asks the native library to work the size out).
InvalidRequest ==
    /\ HasRequest
    /\ IF Called("resize")
       THEN Requested[1] <= 0 \/ Requested[2] <= 0
       ELSE Requested[1] < 0 \/ Requested[2] < 0

\* The native entry points that take output dims.
TransformEntries ==
    {"af_resize", "af_transform", "af_translate", "af_scale", "af_skew"}

\* The positions of the log at which one of them was invoked.
Transforms == {i \in DOMAIN log : log[i].fn \in TransformEntries}

\* The output dims a native transform entry was handed.
HandedDims(e) ==
    IF e.fn \in {"af_resize", "af_transform"}
    THEN <<e.par[1], e.par[2]>>
    ELSE <<e.par[3], e.par[4]>>

\* C2 as stated: a request with invalid output dims fails before any native
\* call is made.
C2_InvalidDimsRejected ==
    InvalidRequest => Raised /\ log = <<>>

\* C2, amended: a request with invalid output dims is not rejected by the
\* binding.  Unless an earlier native query (the shape of the image, for a
\* resize by scale) fails, it reaches the native transform entry, once, and
\* hands it the requested dims as they are (not clamped, not replaced); the
\* call then fails exactly when that entry reports failure.
C2_InvalidDimsForwarded ==
    InvalidRequest =>
        /\ Cardinality(Transforms) <= 1
        /\ (\A i \in DOMAIN log : log[i].ok) => Transforms # {}
        /\ \A i \in Transforms :
               /\ i = Len(log)
               /\ HandedDims(log[i]) = Requested
               /\ Raised <=> ~log[i].ok

\* A translate to a negative output size that the native library accepted.
C2_Witness ==
    /\ Called("translate")
    /\ call.odim0 < 0
    /\ Len(log) = 1 /\ log[1].ok
    /\ HandedDims(log[1])[1] = call.odim0
    /\ Returned

\* C3: when a native entry point reports a non-success return code, the call
\* ends in a raised error in that same call: it returns no array, the caller
\* holds no new array, and nothing is invoked after the failed entry point
\* (no retry; for sobel_filter no abs, add or hypot after a failed Sobel
\* operator).
C3_NativeFailureRaises ==
    \A i \in DOMAIN log :
        ~log[i].ok =>
            /\ Raised
            /\ outcome.val = <<>>
            /\ arrays = Inputs
            /\ i = Len(log)
            /\ log[i].outs = <<>>

\* A sobel_filter whose Sobel operator failed.
C3_Witness ==
    /\ Called("sobel_filter")
    /\ Len(log) = 1
    /\ log[1].fn = "af_sobel_operator"
    /\ ~log[1].ok
    /\ Raised

\* The argument checks of load_image, save_image and resize pass.
ChecksPass ==
    /\ Called("load_image") => call.file_name.file
    /\ Called("save_image") => call.file_name.str
    /\ Called("resize") => resizeValid(call)

\* C4: argument validation comes before the native call: load_image (the
\* file exists), save_image (file_name is a str) and resize (odim0 and odim1
\* given when scale is None) invoke the native entry point only after the
\* check has passed; when the check fails nothing native is invoked and no
\* array is returned.
C4_ChecksBeforeNative ==
    /\ log # <<>> => ChecksPass
    /\ ~ChecksPass => Raised /\ log = <<>> /\ outcome.val = <<>> /\ arrays = Inputs

\* A load_image of a name that is no file: refused, nothing invoked.
C4_Witness ==
    /\ Called("load_image")
    /\ ~call.file_name.file
    /\ call.file_name.str /\ call.file_name.ascii
    /\ Raised /\ outcome.err = "AssertionError"
    /\ log = <<>>

\* C5: histogram defaults each bound on its own.  A bound the caller gives
\* is handed to the native histogram unchanged and no reduction is invoked
\* for it; a missing bound is the result of exactly one reduction over the
\* image (min for min_val, max for max_val), invoked before the native
\* histogram.
C5_HistogramBounds ==
    Called("histogram") =>
        LET mins == Entries("af_min_all")
            maxs == Entries("af_max_all")
            hs == Entries("af_histogram")
        IN  /\ Cardinality(mins) <= 1 /\ Cardinality(maxs) <= 1
            /\ ~IsNone(call.min_val) => mins = {}
            /\ ~IsNone(call.max_val) => maxs = {}
            /\ \A i \in mins \cup maxs : log[i].ins = <<call.image>>
            /\ \A h \in hs :
                   /\ h = Len(log)
                   /\ log[h].ins = <<call.image>>
                   /\ log[h].par[1] = call.nbins
                   /\ IF IsNone(call.min_val)
                      THEN \E i \in mins : i < h /\ log[i].ok
                                            /\ log[h].par[2] = log[i].res[1]
                      ELSE log[h].par[2] = call.min_val[1]
                   /\ IF IsNone(call.max_val)
                      THEN \E i \in maxs : i < h /\ log[i].ok
                                            /\ log[h].par[3] = log[i].res[1]
                      ELSE log[h].par[3] = call.max_val[1]

\* A histogram given min_val = 0 and no max_val: one reduction (the max),
\* then the native histogram with the caller's 0 as lower bound.
C5_Witness ==
    /\ Called("histogram")
    /\ call.min_val = Some(0) /\ IsNone(call.max_val)
    /\ Len(log) = 2
    /\ log[1].fn = "af_max_all"
    /\ log[2].fn = "af_histogram" /\ log[2].par[2] = 0
    /\ log[2].par[3] # 0
    /\ Returned

\* The morphology operations, their native entry points and the shapes of
\* their default masks.
MorphOps == {"dilate", "erode", "dilate3", "erode3"}

MorphEntry(op) == "af_" \o op

DefaultMaskShape(op) == IF op \in {"dilate", "erode"} THEN <<3, 3>> ELSE <<3, 3, 3>>

\* C8: dilate, erode (dilate3, erode3) called with mask None hand the native
\* entry point an all-ones 3x3 (3x3x3) mask, as a caller passing that mask
\* would; the default mask is created inside the call (it is no array that
\* existed before the call, and the caller does not hold it afterwards); a
\* mask the caller gives is handed to the native entry point as it is, and no
\* mask is created.
C8_DefaultMask ==
    call.op \in MorphOps =>
        LET ms == Entries(MorphEntry(call.op))
            cs == Entries("af_constant")
        IN  /\ Cardinality(ms) <= 1
            /\ Returned => ms # {}
            /\ IF IsNone(call.mask)
               THEN /\ Cardinality(cs) <= 1
                    /\ \A m \in ms :
                           \E k \in cs :
                               /\ k < m
                               /\ log[k].par = <<1>> \o DefaultMaskShape(call.op)
                               /\ log[k].outs # <<>>
                               /\ log[k].outs[1] \notin pre
                               /\ log[k].outs[1] \notin arrays
                               /\ log[m].ins = <<call.image, log[k].outs[1]>>
               ELSE /\ cs = {}
                    /\ \A m \in ms : log[m].ins = <<call.image, call.mask[1]>>

\* An erode3 with no mask that returned: the mask was built 3x3x3.
C8_Witness ==
    /\ Called("erode3")
    /\ IsNone(call.mask)
    /\ Len(log) = 2
    /\ log[1].fn = "af_constant" /\ log[1].par = <<1, 3, 3, 3>>
    /\ log[2].fn = "af_erode3"
    /\ Returned

\* C9: sobel_filter invokes the Sobel operator exactly once, on the image
\* with the given w_len; when it returns, the result is abs(dx) + abs(dy)
\* (is_fast) or hypot(dx, dy) (otherwise) of the two derivatives, and nothing
\* else was invoked.
C9_SobelFilter ==
    Called("sobel_filter") =>
        /\ Entries("af_sobel_operator") = {1}
        /\ log[1].ins = <<call.image>>
        /\ log[1].par = <<call.w_len>>
        /\ Returned =>
               LET dx == log[1].outs[1]
                   dy == log[1].outs[2]
               IN  IF call.is_fast
                   THEN /\ Len(log) = 4
                        /\ log[2].fn = "af_abs" /\ log[2].ins = <<dx>>
                        /\ log[3].fn = "af_abs" /\ log[3].ins = <<dy>>
                        /\ log[4].fn = "af_add"
                        /\ log[4].ins = <<log[2].outs[1], log[3].outs[1]>>
                        /\ outcome.val = log[4].outs
                   ELSE /\ Len(log) = 2
                        /\ log[2].fn = "af_hypot" /\ log[2].ins = <<dx, dy>>
                        /\ outcome.val = log[2].outs
        /\ \A i \in DOMAIN log :
               log[i].fn \in {"af_sobel_operator", "af_abs", "af_add", "af_hypot"}

\* A fast sobel_filter that returned.
C9_Witness ==
    /\ Called("sobel_filter")
    /\ call.is_fast
    /\ Returned
    /\ Len(log) = 4
    /\ Len(outcome.val) = 1

\* A histogram of the image with default bounds has been made.
DefaultHistogram ==
    outbuf # <<>> /\ IsNone(inbuf.min_val) /\ IsNone(inbuf.max_val)

RECURSIVE Within(_, _, _, _)
Within(B, conn, S, n) ==
    LET T == S \cup {q \in NonZero(B) : \E p \in S : Adjacent(p, q, conn)}
    IN  IF n = 0 \/ T = S THEN S ELSE Within(B, conn, T, n - 1)

\* Non-zero pixels p and q are joined by a path of non-zero pixels.
Connected(B, conn, p, q) == q \in Within(B, conn, {p}, B.h * B.w)

\* C7: regions returns a label image of the shape of the image in which a
\* zero pixel has label 0, a non-zero pixel a positive label, and two non-zero
\* pixels the same label exactly when non-zero pixels connect them under the
\* chosen adjacency; the 4x4 image with a 2x2 block of ones labels, under
\* 4-connectivity, exactly the four cells of the block, with one label.
C7_RegionsLabels ==
    outbuf # <<>> =>
        LET B == inbuf.image
            L == outbuf.labels
        IN  /\ L.h = B.h /\ L.w = B.w /\ Len(L.px) = Len(B.px)
            /\ \A p \in Cells(B) :
                   IF At(B, p) = 0 THEN At(L, p) = 0 ELSE At(L, p) > 0
            /\ \A p \in NonZero(B) : \A q \in NonZero(B) :
                   (At(L, p) = At(L, q)) <=> Connected(B, inbuf.conn, p, q)
            /\ (B = Block4x4 /\ inbuf.conn = 4) =>
                   \E n \in 1..16 :
                       \A p \in Cells(B) :
                           At(L, p) = IF p[1] \in {2, 3} /\ p[2] \in {2, 3} THEN n ELSE 0

\* Two pixels that touch by a corner only, labelled under 8-connectivity.
C7_Witness ==
    /\ outbuf # <<>>
    /\ inbuf.conn = 8
    /\ inbuf.image.h = 2 /\ inbuf.image.w = 2
    /\ inbuf.image.px = <<1, 0, 0, 1>>
    /\ outbuf.labels.px = <<1, 0, 0, 1>>

\* erode(dilate(B, M), M) >= B >= erode(B, M) at every pixel.
ClosingLaw ==
    \A k \in DOMAIN inbuf.image.px :
        /\ outbuf.ed.px[k] >= inbuf.image.px[k]
        /\ inbuf.image.px[k] >= outbuf.e.px[k]

Eroded == outbuf # <<>> /\ outbuf.stage = "eroded"

\* The mask has its centre set and is symmetric about it.
Centred(M) ==
    /\ At(M, <<(M.h \div 2) + 1, (M.w \div 2) + 1>>) > 0
    /\ \A a \in Cells(M) : At(M, a) = At(M, <<M.h + 1 - a[1], M.w + 1 - a[2]>>)

\* C10 as stated: for every binary image B and every structuring mask M,
\* erode(dilate(B, M), M) >= B >= erode(B, M) at every pixel.
C10_ClosingEveryMask ==
    Eroded => ClosingLaw

\* C10, amended: erode(dilate(B, M), M) >= B >= erode(B, M) at every pixel,
\* for every binary image B, with the default mask (mask None) and with
\* every mask M that has its centre set and is symmetric about its centre.
C10_ClosingCentredMask ==
    (Eroded /\ (IsNone(inbuf.mask) \/ Centred(inbuf.mask[1]))) => ClosingLaw

\* A closing and an erosion by the cross-shaped mask, where the erosion
\* removes a pixel and the dilation adds one.
C10_Witness ==
    /\ Eroded
    /\ inbuf.mask = Some([h |-> 3, w |-> 3, px |-> <<0, 1, 0, 1, 1, 1, 0, 1, 0>>])
    /\ \E k \in DOMAIN inbuf.image.px : inbuf.image.px[k] > outbuf.e.px[k]
    /\ \E k \in DOMAIN inbuf.image.px : outbuf.d.px[k] > inbuf.image.px[k]

\* The handles that appear in the log before position i.
Earlier(i) ==
    UNION {Range(log[j].ins) \cup Range(log[j].outs) : j \in 1..(i - 1)}

\* The handles the native invocations of the last call produced.
Created == UNION {Range(log[i].outs) : i \in DOMAIN log}

\* C11: every operation other than save_image leaves its input arrays alone
\* and returns newly created arrays: no native invocation of the call is
\* handed, as its output, an array that was live before the call, one of its
\* own inputs or an array made earlier in the call; what the call returns
\* was produced in that call and is none of the arrays live before it; the
\* caller still holds its input arrays.  This holds after every sequence of
\* calls, whether the call returned or raised.
C11_InputsKeptOutputsFresh ==
    (~Idle /\ ~Called("save_image")) =>
        /\ \A i \in DOMAIN log :
               /\ Range(log[i].outs) \cap pre = {}
               /\ Range(log[i].outs) \cap Range(log[i].ins) = {}
               /\ Range(log[i].outs) \cap Earlier(i) = {}
               /\ Range(log[i].ins) \subseteq pre \cup Earlier(i)
        /\ Range(outcome.val) \cap pre = {}
        /\ Range(outcome.val) \subseteq Created
        /\ Returned => outcome.val # <<>>
        /\ Raised => outcome.val = <<>>
        /\ Inputs \subseteq arrays

\* An equalization of an image that an earlier call returned, by a histogram
\* that is an input array: it returned an array that is neither.
C11_Witness ==
    /\ Called("hist_equal")
    /\ call.image \notin Inputs
    /\ call.hist \in Inputs
    /\ Returned
    /\ outcome.val[1] \notin {call.image, call.hist}

\* The conversions the native library supports, as <<from_type, to_type>>:
\* GRAY (0) <-> RGB (1) and RGB (1) <-> HSV (2).
SupportedPairs == {<<0, 1>>, <<1, 0>>, <<1, 2>>, <<2, 1>>}

\* C13 as stated: color_space on a pair that is not a supported conversion
\* ends in an error and returns no array.
C13_UnsupportedRejected ==
    (Called("color_space") /\ <<call.from_type, call.to_type>> \notin SupportedPairs)
        => (Raised /\ outcome.val = <<>>)

\* C13, amended: color_space checks no pair itself; every pair of CSPACE
\* values reaches the native af_color_space once, as (to_type, from_type)
\* and with the image; the call raises, returning nothing, exactly when that
\* entry point reports failure, and otherwise returns the array the entry
\* point produced, which is not the input.
C13_PairForwarded ==
    Called("color_space") =>
        /\ Len(log) = 1
        /\ log[1].fn = "af_color_space"
        /\ log[1].ins = <<call.image>>
        /\ log[1].par = <<call.to_type, call.from_type>>
        /\ Raised <=> ~log[1].ok
        /\ Raised => outcome.val = <<>>
        /\ Returned => /\ outcome.val = log[1].outs
                       /\ Len(outcome.val) = 1
                       /\ outcome.val[1] \notin pre

\* A conversion from HSV to GRAY, which is no supported pair, that the
\* native library let through: an array was returned.
C13_Witness ==
    /\ Called("color_space")
    /\ call.from_type = 2 /\ call.to_type = 0
    /\ log[1].par = <<0, 2>>
    /\ Returned

\* C14: save_image creates no array: it makes at most one native call, the
\* save of the array it was given, which produces nothing; when that call
\* succeeds it returns the very array it was given; when the file_name check
\* fails it raises without a native call, and when the check or the native
\* call fails it returns nothing.  Every other operation that returns,
\* returns arrays that were not live before the call.
C14_SaveImageReturnsGiven ==
    /\ Called("save_image") =>
           /\ Len(log) <= 1
           /\ \A i \in DOMAIN log : /\ log[i].fn = "af_save_image"
                                    /\ log[i].ins = <<call.image>>
                                    /\ log[i].outs = <<>>
           /\ ~call.file_name.str => (Raised /\ log = <<>>)
           /\ Returned <=> (Len(log) = 1 /\ log[1].ok)
           /\ Returned => (outcome.val = <<call.image>> /\ call.image \in pre)
           /\ Raised => outcome.val = <<>>
    /\ (Returned /\ ~Called("save_image")) =>
           (outcome.val # <<>> /\ Range(outcome.val) \cap pre = {})

\* A save of an array that an earlier call returned: the same array came
\* back after one native call.
C14_Witness ==
    /\ Called("save_image")
    /\ call.image \notin Inputs
    /\ Len(log) = 1
    /\ Returned
    /\ outcome.val = <<call.image>>

\* The handles that the call of thread t produced before its native
\* invocation k.
Own(t, k) == UNION {Range(threads[t].r.log[i].outs) : i \in 1..(k - 1)}

\* C12: under every interleaving of concurrent calls, (a) every array the
\* caller can see is complete: an output becomes visible only once every
\* part of it is written; (b) a native invocation of a call reads only
\* complete buffers, which are arrays the caller held when the call began or
\* arrays the call itself produced, never the output of another call in
\* progress, and these input arrays are as they were when the call began;
\* (c) a call that has ended returned arrays whose contents are those the
\* same call produces when run alone on the arrays as they were when it
\* began, and a call that raised returned nothing.
C12_ConcurrentCalls ==
    /\ \A h \in arrays : h \in DOMAIN heap /\ Complete(heap[h])
    /\ \A t \in Threads :
           /\ Busy(t) =>
                  \A i \in DOMAIN threads[t].snap : heap[i] = threads[t].snap[i]
           /\ threads[t].pc = "native" =>
                  LET e == threads[t].r.log[threads[t].k]
                  IN  \A i \in Range(e.ins) :
                          /\ i \in DOMAIN threads[t].snap \cup Own(t, threads[t].k)
                          /\ i \in DOMAIN heap
                          /\ Complete(heap[i])
           /\ threads[t].pc = "done" =>
                  LET r == threads[t].r
                      alone == Alone(r.log, 1, threads[t].snap)
                  IN  /\ r.kind = "raised" => r.val = <<>>
                      /\ r.kind = "returned" => r.val # <<>>
                      /\ \A v \in Range(r.val) :
                             /\ v \in arrays
                             /\ heap[v] = alone[v]

\* Two calls on the same image that overlapped: the call of thread 2 began
\* first (it was given the smaller handle) and has written only a part of its
\* output, which the caller cannot see, while the call of thread 1 has
\* already returned its complete output.
C12_Witness ==
    /\ threads[1].pc = "done"
    /\ threads[1].r.kind = "returned"
    /\ threads[2].pc = "native"
    /\ threads[2].j = 1
    /\ threads[1].c.image = threads[2].c.image
    /\ \E v \in Range(threads[1].r.val), w \in Planned(threads[2].r) :
           /\ w < v
           /\ w \in DOMAIN heap
           /\ ~Complete(heap[w])
           /\ w \notin arrays
           /\ v \in arrays

====
